---- MODULE Spec2Model ----
(***************************************************************************)
(* The scene-transition state machine of src/src/App.jsx (component App):  *)
(* the four useState cells speed, currentScene, isJumping, flash, the ref  *)
(* timerRef, and the browser's queue of pending setTimeout callbacks.      *)
(*                                                                         *)
(* Units.  speed is kept in tenths (0.2 -> 2, 1 -> 10, 8 -> 80, 12 -> 120) *)
(* so that it stays an integer.  Time is in milliseconds; the clock moves  *)
(* in steps of Quantum, the greatest common divisor of the four delays of  *)
(* the source, so every timer comes due exactly on a clock step.           *)
(***************************************************************************)
EXTENDS Integers, Sequences, FiniteSets, TLC

VARIABLES
    speed,          \* useState(1), in tenths
    currentScene,   \* useState('travel')
    isJumping,      \* useState(false)
    flash,          \* useState(false)
    timerRef,       \* useRef(null).current: 0 is null, else a timer handle
    timers,         \* the host's pending setTimeout callbacks, by due time
    scrollY,        \* the window's scroll offset: 0 is the top
    mounted,        \* the App component has not been torn down
    solo,           \* history: the last press/release/click was made with no timer pending
    elapsed,        \* history: ms since the last startWarp or handleJump call, 0 with no timer pending
    refFired        \* history: the timer whose handle is in timerRef has run its callback

vars == <<speed, currentScene, isJumping, flash, timerRef, timers, scrollY,
          mounted, solo, elapsed, refFired>>

(***************************************************************************)
(* Program constants                                                       *)
(***************************************************************************)
ChargeDelay == 5000
FlashDelay == 1000
SwapDelay == 200
FadeDelay == 800

InitialSpeed == 10
ChargeSpeed == 80
JumpSpeed == 120
ReleaseSpeed == 10

(***************************************************************************)
(* Bounds of the model                                                     *)
(***************************************************************************)
MaxTimers == 2

Scenes == {"travel", "blackhole", "wormhole", "earth", "projects", "contact"}

Kinds == {"charge", "flashOn", "swap", "flashOff"}

RECURSIVE GCD(_, _)
GCD(a, b) == IF b = 0 THEN a ELSE GCD(b, a % b)

Quantum == GCD(GCD(ChargeDelay, FlashDelay), GCD(SwapDelay, FadeDelay))

(***************************************************************************)
(* The target each scene's advance button passes to handleJump.            *)
(***************************************************************************)
AdvanceTarget(scene) ==
    CASE scene = "blackhole" -> "wormhole"
      [] scene = "wormhole"  -> "earth"
      [] scene = "earth"     -> "projects"
      [] scene = "projects"  -> "contact"
      [] scene = "contact"   -> "travel"

\* Faulty variant: the arrival speed ignores the destination.
RestingSpeed_Always02(nextScene) == 2

RestingSpeed(nextScene) == IF nextScene = "travel" THEN 10 ELSE 2

(***************************************************************************)
(* The host's timers.  A pending timer is its handle (NoHandle when the    *)
(* program did not keep it; handles are only ever compared with timerRef), *)
(* the callback it will run (kind, with the nextScene its closure holds)   *)
(* and the time left.  clearTimeout(null) cancels nothing.                 *)
(* The queue is ordered by due time, timers due together in the order of   *)
(* their setTimeout calls, which is the order the host runs them in.       *)
(***************************************************************************)
\* handleJump drops the handles of its three timers; startWarp keeps its own.
NoHandle == 0

Ids(q) == {q[i].id : i \in 1..Len(q)}

NewId(q) == CHOOSE n \in 1..(Len(q) + 2) :
                /\ n \notin Ids(q) \cup {timerRef}
                /\ \A m \in 1..(n - 1) : m \in Ids(q) \cup {timerRef}

Timer(id, kind, nextScene, delay) ==
    [id |-> id, kind |-> kind, nextScene |-> nextScene, remaining |-> delay]

SetTimeout(q, t) ==
    LET k == Cardinality({i \in 1..Len(q) : q[i].remaining <= t.remaining})
    IN  SubSeq(q, 1, k) \o <<t>> \o SubSeq(q, k + 1, Len(q))

ClearTimeout(q, id) ==
    IF id = 0 THEN q ELSE SelectSeq(q, LAMBDA t : t.id # id)

Due(kind) == /\ Len(timers) > 0
             /\ Head(timers).remaining = 0
             /\ Head(timers).kind = kind

Init ==
    /\ speed = InitialSpeed
    /\ currentScene = "travel"
    /\ isJumping = FALSE
    /\ flash = FALSE
    /\ timerRef = 0
    /\ timers = <<>>
    /\ scrollY = 0
    /\ mounted = TRUE
    /\ solo = TRUE
    /\ elapsed = 0
    /\ refFired = FALSE

(***************************************************************************)
(* handleJump(nextScene), called with the timer queue q it adds to.        *)
(***************************************************************************)
HandleJump(nextScene, q) ==
    /\ isJumping' = TRUE
    /\ speed' = JumpSpeed
    /\ timers' = SetTimeout(q, Timer(NoHandle, "flashOn", nextScene, FlashDelay))
    /\ elapsed' = 0

(***************************************************************************)
(* onMouseDown of INITIALIZE JUMP: startWarp.                              *)
(***************************************************************************)
StartWarp ==
    /\ mounted
    /\ currentScene = "travel"
    /\ Len(timers) < MaxTimers
    /\ speed' = ChargeSpeed
    /\ LET id == NewId(timers)
       IN  /\ timers' = SetTimeout(timers, Timer(id, "charge", "blackhole", ChargeDelay))
           /\ timerRef' = id
    /\ solo' = (Len(timers) = 0)
    /\ elapsed' = 0
    /\ refFired' = FALSE
    /\ UNCHANGED <<currentScene, isJumping, flash, scrollY, mounted>>

\* Faulty variant: the release forgets clearTimeout.
StopWarp_NoClear ==
    /\ mounted
    /\ currentScene = "travel"
    /\ timers' = timers
    /\ speed' = ReleaseSpeed
    /\ solo' = (Len(timers) = 0)
    /\ elapsed' = IF Len(timers') = 0 THEN 0 ELSE elapsed
    /\ UNCHANGED <<currentScene, isJumping, flash, timerRef, scrollY, mounted, refFired>>

(***************************************************************************)
(* onMouseUp of INITIALIZE JUMP: clearTimeout(timerRef.current); setSpeed(1)*)
(***************************************************************************)
StopWarp ==
    /\ mounted
    /\ currentScene = "travel"
    /\ timers' = ClearTimeout(timers, timerRef)
    /\ speed' = ReleaseSpeed
    /\ solo' = (Len(timers) = 0)
    /\ elapsed' = IF Len(timers') = 0 THEN 0 ELSE elapsed
    /\ UNCHANGED <<currentScene, isJumping, flash, timerRef, scrollY, mounted, refFired>>

(***************************************************************************)
(* onClick of the advance button of the scene shown.                       *)
(***************************************************************************)
Advance ==
    /\ mounted
    /\ currentScene # "travel"
    /\ Len(timers) < MaxTimers
    /\ HandleJump(AdvanceTarget(currentScene), timers)
    /\ solo' = (Len(timers) = 0)
    /\ UNCHANGED <<currentScene, flash, timerRef, scrollY, mounted, refFired>>

(***************************************************************************)
(* The user scrolls the page (the root div scrolls in every scene but      *)
(* travel).                                                                *)
(***************************************************************************)
Scroll ==
    /\ mounted
    /\ currentScene # "travel"
    /\ scrollY' = 1 - scrollY
    /\ UNCHANGED <<speed, currentScene, isJumping, flash, timerRef, timers,
                   mounted, solo, elapsed, refFired>>

\* Faulty variant: the charge callback jumps to the wrong scene.
FireCharge_WrongTarget ==
    /\ Due("charge")
    /\ HandleJump("wormhole", Tail(timers))
    /\ refFired' = IF Head(timers).id = timerRef THEN TRUE ELSE refFired
    /\ UNCHANGED <<currentScene, flash, timerRef, scrollY, mounted, solo>>

\* Faulty variant: the swap is scheduled with the fade-out delay.
FireFlashOn_WrongDelay ==
    /\ Due("flashOn")
    /\ flash' = TRUE
    /\ LET q == Tail(timers)
       IN  timers' = SetTimeout(q, Timer(NoHandle, "swap", Head(timers).nextScene, FadeDelay))
    /\ UNCHANGED <<speed, currentScene, isJumping, timerRef, scrollY, mounted,
                   solo, elapsed, refFired>>

\* Faulty variant: the swap step never schedules setFlash(false).
FireSwap_NoFade ==
    /\ Due("swap")
    /\ currentScene' = Head(timers).nextScene
    /\ isJumping' = FALSE
    /\ speed' = RestingSpeed(Head(timers).nextScene)
    /\ scrollY' = 0
    /\ timers' = Tail(timers)
    /\ elapsed' = IF Len(timers') = 0 THEN 0 ELSE elapsed
    /\ UNCHANGED <<flash, timerRef, mounted, solo, refFired>>

\* Faulty variant: the swap step forgets setIsJumping(false).
FireSwap_KeepsJumping ==
    /\ Due("swap")
    /\ currentScene' = Head(timers).nextScene
    /\ speed' = RestingSpeed(Head(timers).nextScene)
    /\ scrollY' = 0
    /\ LET q == Tail(timers)
       IN  timers' = SetTimeout(q, Timer(NoHandle, "flashOff", Head(timers).nextScene, FadeDelay))
    /\ UNCHANGED <<isJumping, flash, timerRef, mounted, solo, elapsed, refFired>>

(***************************************************************************)
(* The timer callbacks.                                                    *)
(***************************************************************************)
FireCharge ==
    /\ Due("charge")
    /\ HandleJump("blackhole", Tail(timers))
    /\ refFired' = IF Head(timers).id = timerRef THEN TRUE ELSE refFired
    /\ UNCHANGED <<currentScene, flash, timerRef, scrollY, mounted, solo>>

FireFlashOn ==
    /\ Due("flashOn")
    /\ flash' = TRUE
    /\ LET q == Tail(timers)
       IN  timers' = SetTimeout(q, Timer(NoHandle, "swap", Head(timers).nextScene, SwapDelay))
    /\ UNCHANGED <<speed, currentScene, isJumping, timerRef, scrollY, mounted,
                   solo, elapsed, refFired>>

FireSwap ==
    /\ Due("swap")
    /\ currentScene' = Head(timers).nextScene
    /\ isJumping' = FALSE
    /\ speed' = RestingSpeed(Head(timers).nextScene)
    /\ scrollY' = 0
    /\ LET q == Tail(timers)
       IN  timers' = SetTimeout(q, Timer(NoHandle, "flashOff", Head(timers).nextScene, FadeDelay))
    /\ UNCHANGED <<flash, timerRef, mounted, solo, elapsed, refFired>>

FireFlashOff ==
    /\ Due("flashOff")
    /\ flash' = FALSE
    /\ timers' = Tail(timers)
    /\ elapsed' = IF Len(timers') = 0 THEN 0 ELSE elapsed
    /\ UNCHANGED <<speed, currentScene, isJumping, timerRef, scrollY, mounted,
                   solo, refFired>>

Fire == FireCharge \/ FireFlashOn \/ FireSwap \/ FireFlashOff

(***************************************************************************)
(* Time passes: no timer is due, and every pending timer comes Quantum ms  *)
(* closer.                                                                 *)
(***************************************************************************)
Tick ==
    /\ Len(timers) > 0
    /\ Head(timers).remaining > 0
    /\ timers' = [i \in 1..Len(timers) |->
                     [timers[i] EXCEPT !.remaining = @ - Quantum]]
    /\ elapsed' = elapsed + Quantum
    /\ UNCHANGED <<speed, currentScene, isJumping, flash, timerRef, scrollY,
                   mounted, solo, refFired>>

(***************************************************************************)
(* The component is torn down.  App registers no cleanup (no useEffect),   *)
(* so the pending timers stay in the host's queue.                         *)
(***************************************************************************)
Unmount ==
    /\ mounted
    /\ mounted' = FALSE
    /\ UNCHANGED <<speed, currentScene, isJumping, flash, timerRef, timers,
                   scrollY, solo, elapsed, refFired>>

Next ==
    \/ StartWarp
    \/ StopWarp
    \/ Advance
    \/ Scroll
    \/ FireCharge
    \/ FireFlashOn
    \/ FireSwap
    \/ FireFlashOff
    \/ Tick

Spec == Init /\ [][Next]_vars

(***************************************************************************)
(* The host's event loop lets time pass and runs every timer that is due.  *)
(***************************************************************************)
FairSpec == Spec /\ WF_vars(Tick) /\ WF_vars(Fire)

NextTeardown == Next \/ Unmount

SpecTeardown == Init /\ [][NextTeardown]_vars

TypeOK ==
    /\ speed \in {2, 10, 80, 120}
    /\ currentScene \in Scenes
    /\ isJumping \in BOOLEAN
    /\ flash \in BOOLEAN
    /\ timerRef \in Nat
    /\ Len(timers) <= MaxTimers
    /\ \A i \in 1..Len(timers) :
          /\ timers[i].kind \in Kinds
          /\ timers[i].nextScene \in Scenes
          /\ timers[i].remaining \in 0..ChargeDelay
    /\ \A i, j \in 1..Len(timers) :
          /\ i < j => timers[i].remaining <= timers[j].remaining
          /\ (i # j /\ timers[i].id # NoHandle) => timers[i].id # timers[j].id
    /\ scrollY \in 0..1
    /\ mounted \in BOOLEAN
    /\ elapsed \in 0..ChargeDelay

(***************************************************************************)
(* Vocabulary of the properties                                            *)
(***************************************************************************)
Pending(kinds) == {i \in 1..Len(timers) : timers[i].kind \in kinds}

JumpKinds == {"flashOn", "swap", "flashOff"}

AtRest == Len(timers) = 0

RefPending == \E i \in 1..Len(timers) :
                  timers[i].id = timerRef /\ timers[i].kind = "charge"

SceneSuccessor(scene) ==
    IF scene = "travel" THEN "blackhole" ELSE AdvanceTarget(scene)

(***************************************************************************)
(* C1.  A jump that no other input overlaps (solo) runs in this order and  *)
(* at these times: handleJump sets isJumping and speed 12 and schedules    *)
(* the flash 1000 ms ahead; the flash turns on exactly 1000 ms after the   *)
(* call, with the scene still the old one; 200 ms later the scene becomes  *)
(* the target and isJumping false in one step, under the flash; 800 ms     *)
(* later the flash turns off, the scene being the target.  The scene never *)
(* changes while the flash is off.                                         *)
(***************************************************************************)
C1_JumpSequence ==
    [][ /\ (solo' /\ (Advance \/ FireCharge)) =>
              /\ isJumping' /\ speed' = JumpSpeed
              /\ ~flash' /\ currentScene' = currentScene
              /\ Len(timers') = 1
              /\ timers'[1].kind = "flashOn" /\ timers'[1].remaining = FlashDelay
        /\ (solo /\ FireFlashOn) =>
              /\ elapsed = FlashDelay
              /\ ~flash /\ flash' /\ isJumping'
              /\ currentScene' = currentScene
              /\ currentScene # Head(timers).nextScene
        /\ (solo /\ FireSwap) =>
              /\ elapsed = FlashDelay + SwapDelay
              /\ flash /\ flash'
              /\ currentScene' = Head(timers).nextScene
              /\ isJumping /\ ~isJumping'
        /\ (solo /\ FireFlashOff) =>
              /\ elapsed = FlashDelay + SwapDelay + FadeDelay
              /\ flash /\ ~flash'
              /\ currentScene = Head(timers).nextScene
              /\ ~isJumping
        /\ (solo /\ currentScene' # currentScene) => flash
      ]_vars

C1_Witness ==
    /\ solo
    /\ Due("flashOff")
    /\ elapsed = FlashDelay + SwapDelay + FadeDelay
    /\ currentScene = "wormhole"
    /\ flash

(***************************************************************************)
(* C2.  A release that finds the charge timer of timerRef still pending    *)
(* cancels exactly that timer and schedules nothing: the scene stays       *)
(* travel, speed becomes 1, isJumping and flash are untouched; when the    *)
(* press was made at rest with no input since, the release leaves the      *)
(* application at rest in travel with isJumping and flash false.           *)
(***************************************************************************)
C2_ReleaseCancelsCharge ==
    [][ (StopWarp /\ RefPending) =>
            /\ currentScene' = "travel"
            /\ speed' = 10
            /\ isJumping' = isJumping /\ flash' = flash
            /\ timers' = ClearTimeout(timers, timerRef)
            /\ Len(timers') = Len(timers) - 1
            /\ \A i \in 1..Len(timers') : timers'[i].id # timerRef
            /\ solo => (Len(timers') = 0 /\ ~isJumping' /\ ~flash')
      ]_vars

C2_Witness ==
    /\ currentScene = "travel"
    /\ timerRef # 0 /\ ~refFired /\ ~RefPending
    /\ ~solo /\ AtRest
    /\ speed = 10 /\ ~isJumping /\ ~flash

(***************************************************************************)
(* C3.  The flash overlay never sticks: every state with flash true is     *)
(* followed by one with flash false, and flash is false whenever no timer  *)
(* is pending.                                                             *)
(***************************************************************************)
C3_FlashNeverStuck ==
    /\ flash ~> ~flash
    /\ [](AtRest => ~flash)

C3_Witness ==
    /\ flash
    /\ ~solo
    /\ Cardinality(Pending(JumpKinds)) = 2

(***************************************************************************)
(* C4.  isJumping is true only while some handleJump call has not yet run  *)
(* its scene-swap step (its flash or swap timer is pending); so it is      *)
(* false at rest.                                                          *)
(***************************************************************************)
C4_JumpingOnlyInFlight ==
    /\ isJumping => Pending({"flashOn", "swap"}) # {}
    /\ AtRest => ~isJumping

C4_Witness ==
    /\ isJumping
    /\ flash
    /\ Pending({"flashOff"}) # {}
    /\ Pending({"flashOn"}) # {}

(***************************************************************************)
(* C5.  At rest speed is the resting speed of the current scene (1 in      *)
(* travel, 0.2 elsewhere), and the swap step sets the scene and its        *)
(* resting speed together.                                                 *)
(***************************************************************************)
C5_RestingSpeed ==
    /\ [](AtRest => speed = (IF currentScene = "travel" THEN 10 ELSE 2))
    /\ [][FireSwap =>
            /\ currentScene' = Head(timers).nextScene
            /\ speed' = (IF currentScene' = "travel" THEN 10 ELSE 2)]_vars

C5_Witness ==
    /\ AtRest
    /\ currentScene = "travel"
    /\ refFired
    /\ speed = 10

(***************************************************************************)
(* C6.  A press at rest in travel sets speed 8 at once and schedules the   *)
(* charge 5000 ms ahead; held with no other input, the charge fires 5000   *)
(* ms after the press and starts a jump (isJumping, speed 12), and the     *)
(* application then comes to rest in blackhole with speed 0.2, isJumping   *)
(* and flash false.                                                        *)
(***************************************************************************)
C6_Arrived ==
    /\ AtRest
    /\ currentScene = "blackhole"
    /\ speed = 2
    /\ ~isJumping
    /\ ~flash

C6_HoldJumpsToBlackhole ==
    /\ [][ (StartWarp /\ AtRest) =>
              /\ speed' = ChargeSpeed
              /\ Len(timers') = 1
              /\ timers'[1].kind = "charge" /\ timers'[1].remaining = ChargeDelay
         ]_vars
    /\ [][ (solo /\ FireCharge) =>
              /\ elapsed = ChargeDelay
              /\ isJumping' /\ speed' = JumpSpeed
              /\ Head(timers').nextScene = "blackhole"
         ]_vars
    /\ (solo /\ Pending({"charge"}) # {}) ~> (~solo \/ C6_Arrived)

C6_Witness ==
    /\ solo
    /\ refFired
    /\ C6_Arrived

(***************************************************************************)
(* C7.  At most one jump sequence is in progress: handleJump is never      *)
(* started while the timers of an earlier handleJump call are pending.     *)
(***************************************************************************)
C7_OneJumpInFlight ==
    [][ (Advance \/ FireCharge) => Pending(JumpKinds) = {} ]_vars

(***************************************************************************)
(* C8.  A release made after the charge timer of timerRef has fired        *)
(* changes nothing: speed, isJumping, flash, currentScene and the pending  *)
(* timers stay as they are.                                                *)
(***************************************************************************)
C8_LateReleaseNoOp ==
    [][ (StopWarp /\ refFired) =>
            UNCHANGED <<speed, isJumping, flash, currentScene, timers>> ]_vars

(***************************************************************************)
(* C9.  Teardown cancels the pending timers: once the component is torn    *)
(* down no timer is pending, so no callback runs and no state is written.  *)
(***************************************************************************)
C9_TeardownCancelsTimers ==
    ~mounted => (AtRest /\ ~ENABLED Fire)

(***************************************************************************)
(* C10.  Every change of currentScene goes from a scene to its successor   *)
(* in the cycle travel, blackhole, wormhole, earth, projects, contact,     *)
(* travel.                                                                 *)
(***************************************************************************)
C10_SceneOrder ==
    [][ currentScene' # currentScene =>
            currentScene' = SceneSuccessor(currentScene) ]_vars

(***************************************************************************)
(* C11.  At most one charge timer is pending, and its handle is the one    *)
(* in timerRef, so that a release cancels every pending charge timer.      *)
(***************************************************************************)
C11_OneChargeTimerInRef ==
    /\ Cardinality(Pending({"charge"})) <= 1
    /\ \A i \in Pending({"charge"}) : timers[i].id = timerRef
    /\ LET left == ClearTimeout(timers, timerRef)
       IN  \A i \in 1..Len(left) : left[i].kind # "charge"
====
